---- MODULE Spec2Model ----
(***************************************************************************)
(* Model of src/src/App.tsx of sbcc-lite: the react-hook-form state of the *)
(* calculator (rows, gfa, referenceValue), the handlers that edit it, the  *)
(* output derived from it on every render, the lazily materialised option  *)
(* lists of SelectInput, the zod row schema and the catalogue lookups.     *)
(*                                                                         *)
(* JavaScript values are records [t, n, s]: t is the typeof tag, n the     *)
(* number, s the string as a sequence of symbols.  A symbol is one         *)
(* character of a numeric literal ("-", "+", "0".."9") or one opaque name  *)
(* (a catalogue identifier is a one-symbol string).  Positions in rows are *)
(* 1-based here and 0-based in the code.                                   *)
(***************************************************************************)
EXTENDS Integers, Sequences, FiniteSets, TLC

VARIABLES
    formValues,        \* react-hook-form's values: [rows, gfa, referenceValue]
    open,              \* the SelectInput instances whose useState(open) is true
    output,            \* the output computed by the last render
    appends,           \* number of append() calls made so far
    edits,             \* number of field edits made so far
    last,              \* the handler that ran last
    globalComponents,  \* catalogue table of global components
    countryComponents, \* catalogue table of country-specific components
    looked,            \* last lookup made in componentIdToGreenmarkMap
    candidate,         \* raw candidate row handed to rowschema
    parsed             \* what rowschema returned for candidate

vars == <<formValues, open, output, appends, edits, last,
          globalComponents, countryComponents, looked, candidate, parsed>>

(* ------------------------------ bounds --------------------------------- *)

MaxAppends == 1
MaxEdits == 2
MaxGlobal == 2
MaxCountry == 2

(* --------------------------- JavaScript values ------------------------- *)

Num(n) == [t |-> "number", n |-> n, s |-> <<>>]
Str(s) == [t |-> "string", n |-> 0, s |-> s]
Id(name) == Str(<<name>>)
undefined == [t |-> "undefined", n |-> 0, s |-> <<>>]
NaN == [t |-> "NaN", n |-> 0, s |-> <<>>]

Digits == <<"0", "1", "2", "3", "4", "5", "6", "7", "8", "9">>

IsDigit(ch) == \E d \in 1..10 : Digits[d] = ch

DigitValue(ch) == (CHOOSE d \in 1..10 : Digits[d] = ch) - 1

RECURSIVE DigitsToNat(_)
DigitsToNat(s) ==
    IF s = <<>> THEN 0
    ELSE 10 * DigitsToNat(SubSeq(s, 1, Len(s) - 1)) + DigitValue(s[Len(s)])

AllDigits(s) == s # <<>> /\ \A k \in 1..Len(s) : IsDigit(s[k])

\* Number(v) of ECMAScript on whole-number literals: the empty string is 0,
\* an optionally signed run of digits is its value, any other string and
\* undefined are NaN.
Number(v) ==
    IF v.t = "number" THEN v
    ELSE IF v.t = "string" THEN
        IF v.s = <<>> THEN Num(0)
        ELSE IF AllDigits(v.s) THEN Num(DigitsToNat(v.s))
        ELSE IF v.s[1] = "-" /\ AllDigits(Tail(v.s)) THEN Num(0 - DigitsToNat(Tail(v.s)))
        ELSE IF v.s[1] = "+" /\ AllDigits(Tail(v.s)) THEN Num(DigitsToNat(Tail(v.s)))
        ELSE NaN
    ELSE NaN

RECURSIVE NatToDigits(_)
NatToDigits(n) ==
    IF n < 10 THEN <<Digits[n + 1]>>
    ELSE Append(NatToDigits(n \div 10), Digits[(n % 10) + 1])

\* value.toString() of a number or a string
toString(v) ==
    IF v.t = "string" THEN v
    ELSE IF v.n < 0 THEN Str(<<"-">> \o NatToDigits(0 - v.n))
    ELSE Str(NatToDigits(v.n))

\* JavaScript truthiness, as used by `!open && value && ...`
Truthy(v) ==
    \/ v.t = "string" /\ v.s # <<>>
    \/ v.t = "number" /\ v.n # 0

(* ------------------------------ catalogue ------------------------------ *)

\* The static tables of @citysyntax/sbcc-core, as a small instance.
GlobalTable ==
    << [componentId |-> Id("Concrete C30"), greenMarkCategory |-> Id("Concrete")],
       [componentId |-> Id("Timber"), greenMarkCategory |-> undefined] >>

CountryTable ==
    << [countryId |-> Id("Malaysia"), componentId |-> Id("Concrete C30"),
        greenMarkCategory |-> Id("Concrete")] >>

ports == << [countryId |-> Id("Singapore")], [countryId |-> Id("Malaysia")] >>

vehicles ==
    << [vehicleId |-> Id("Bulk carrier"), mode |-> <<"Maritime">>],
       [vehicleId |-> Id("Very heavy goods vehicle"), mode |-> <<"Road">>],
       [vehicleId |-> Id("Heavy goods vehicle"), mode |-> <<"Road">>] >>

referenceValues ==
    << [buildingType |-> "Residential", referenceValue |-> Num(1000)],
       [buildingType |-> "Commercial", referenceValue |-> Num(2500)] >>

includes(arr, x) == \E k \in 1..Len(arr) : arr[k] = x

RECURSIVE filter(_, _)
filter(arr, mode) ==
    IF arr = <<>> THEN <<>>
    ELSE IF includes(Head(arr).mode, mode) THEN <<Head(arr)>> \o filter(Tail(arr), mode)
    ELSE filter(Tail(arr), mode)

RECURSIVE unique(_)
unique(arr) ==
    IF arr = <<>> THEN <<>>
    ELSE LET front == unique(SubSeq(arr, 1, Len(arr) - 1))
             x == arr[Len(arr)]
         IN  IF includes(front, x) THEN front ELSE Append(front, x)

componentIds ==
    unique([k \in 1..Len(globalComponents) |-> globalComponents[k].componentId]
           \o [k \in 1..Len(countryComponents) |-> countryComponents[k].componentId])

countryIds ==
    unique([k \in 1..Len(countryComponents) |-> countryComponents[k].countryId]
           \o [k \in 1..Len(ports) |-> ports[k].countryId])

marineVehicleIds ==
    LET vs == filter(vehicles, "Maritime")
    IN  unique([k \in 1..Len(vs) |-> vs[k].vehicleId])

roadVehicles ==
    LET vs == filter(vehicles, "Road")
    IN  unique([k \in 1..Len(vs) |-> vs[k].vehicleId])

\* A JavaScript object used as a dictionary: a function from keys to values.
EmptyObject == [k \in {} |-> undefined]

Assign(acc, key, value) ==
    [k \in DOMAIN acc \cup {key} |-> IF k = key THEN value ELSE acc[k]]

Get(acc, key) == IF key \in DOMAIN acc THEN acc[key] ELSE undefined

RECURSIVE reduce(_, _)
reduce(arr, acc) ==
    IF arr = <<>> THEN acc
    ELSE reduce(Tail(arr), Assign(acc, Head(arr).componentId.s, Head(arr).greenMarkCategory))

\* mutant: the global table is laid over the country-specific one
componentIdToGreenmarkMapGlobalWins ==
    reduce(countryComponents \o globalComponents, EmptyObject)

componentIdToGreenmarkMap ==
    reduce(globalComponents \o countryComponents, EmptyObject)

referenceValueOptions ==
    [k \in 1..Len(referenceValues) |->
        [isString |-> FALSE,
         value |-> toString(referenceValues[k].referenceValue),
         label |-> Str(<<referenceValues[k].buildingType, " (">>
                       \o toString(referenceValues[k].referenceValue).s
                       \o <<"kgCO2eq/m2 GFA)">>)]]

\* a string[] handed to SelectInput as options
StringOptions(arr) ==
    [k \in 1..Len(arr) |-> [isString |-> TRUE, value |-> arr[k], label |-> arr[k]]]

(* ------------------------------ row schema ----------------------------- *)

defaultInputRow ==
    [componentId |-> globalComponents[1].componentId,
     greenMarkCategory |-> undefined,
     countryId |-> Id("Singapore"),
     quantity |-> Num(20),
     units |-> Id("tonne"),
     manualMarineDistance |-> undefined,
     marineVehicleId |-> Id("Bulk carrier"),
     internationalRoadVehicleId |-> Id("Very heavy goods vehicle"),
     internationalRoadDistance |-> Num(0),
     localRoadVehicleId |-> Id("Heavy goods vehicle"),
     localRoadDistance |-> Num(50)]

RowFields == DOMAIN defaultInputRow

\* each z.* schema returns [ok, data]
zString(v) == [ok |-> v.t = "string", data |-> v]

zEnum(members, v) == [ok |-> v.t = "string" /\ v \in members, data |-> v]

zCoerceNumber(v) == [ok |-> Number(v).t = "number", data |-> Number(v)]

zMin(r, m) == [ok |-> r.ok /\ r.data.n >= m, data |-> r.data]

zOptional(r, v) == IF v.t = "undefined" THEN [ok |-> TRUE, data |-> undefined] ELSE r

GreenMarkCategories == {Id("Concrete"), Id("Steel"), Id("Glass")}

Units == {Id("tonne"), Id("kg")}

rowschemaFields(row) ==
    [componentId |-> zString(row.componentId),
     greenMarkCategory |-> zOptional(zEnum(GreenMarkCategories, row.greenMarkCategory),
                                     row.greenMarkCategory),
     countryId |-> zString(row.countryId),
     quantity |-> zMin(zCoerceNumber(row.quantity), 0),
     units |-> zEnum(Units, row.units),
     manualMarineDistance |-> zOptional(zCoerceNumber(row.manualMarineDistance),
                                        row.manualMarineDistance),
     marineVehicleId |-> zString(row.marineVehicleId),
     internationalRoadVehicleId |-> zString(row.internationalRoadVehicleId),
     internationalRoadDistance |-> zMin(zCoerceNumber(row.internationalRoadDistance), 0),
     localRoadVehicleId |-> zString(row.localRoadVehicleId),
     localRoadDistance |-> zMin(zCoerceNumber(row.localRoadDistance), 0)]

\* rowschema.safeParse(row): the fields in error, and the coerced row
rowschema(row) ==
    LET r == rowschemaFields(row)
        errors == {f \in RowFields : ~r[f].ok}
    IN  [success |-> errors = {},
         errors |-> errors,
         data |-> [f \in RowFields |-> r[f].data]]

(* ------------------------------ form state ----------------------------- *)

defaultValues ==
    [rows |-> <<defaultInputRow>>,
     gfa |-> Num(1000),
     referenceValue |-> referenceValues[1].referenceValue]

\* form.watch(): the current values of the whole form
watch(values) == [rows |-> values.rows, gfa |-> values.gfa,
                  referenceValue |-> values.referenceValue]

\* calculateGreenMark of @citysyntax/sbcc-core, left uninterpreted: the output
\* names the parameters it was computed from and has one entry per row, the
\* figures of row k of those parameters.
calculateGreenMark(params) ==
    [params |-> params,
     rows |-> [k \in 1..Len(params.rows) |-> [a1a3 |-> <<"a1a3", k>>, a4 |-> <<"a4", k>>]]]

\* mutant: the output is computed once, from the values of the first render
AppMemoized(values) == calculateGreenMark(watch(defaultValues))

\* one render of App: the output shown and exported
App(values) == calculateGreenMark(watch(values))

\* mutant: append() puts the value in twice
appendTwice(rows, value) == Append(Append(rows, value), value)

\* useFieldArray's append(value)
append(rows, value) == Append(rows, value)

\* mutant: the copy button appends a fresh default row
copyRowDefault(rows, index) == defaultInputRow

\* { ...rows[index] }
copyRow(rows, index) == [f \in DOMAIN rows[index] |-> rows[index][f]]

\* mutant: remove() drops the last row whatever the index
removeLast(rows, index) == IF rows = <<>> THEN rows ELSE SubSeq(rows, 1, Len(rows) - 1)

\* useFieldArray's remove(index): a splice of one element at index
remove(rows, index) ==
    IF index \in 1..Len(rows)
    THEN SubSeq(rows, 1, index - 1) \o SubSeq(rows, index + 1, Len(rows))
    ELSE rows

\* field.onChange(v) / form.setValue(`rows.${index}.${field}`, v)
setValue(values, index, field, v) ==
    [values EXCEPT !.rows[index][field] = v]

\* mutant: a category the user chose by hand is kept
onComponentChangeKeepOverride(values, index, v) ==
    LET greenMarkCategory == Get(componentIdToGreenmarkMap, v.s)
        changed == setValue(values, index, "componentId", v)
    IN  IF values.rows[index].greenMarkCategory.t = "undefined"
        THEN setValue(changed, index, "greenMarkCategory", greenMarkCategory)
        ELSE changed

\* onValueChange of the component chooser of a row
onComponentChange(values, index, v) ==
    LET greenMarkCategory == Get(componentIdToGreenmarkMap, v.s)
    IN  setValue(setValue(values, index, "componentId", v),
                 index, "greenMarkCategory", greenMarkCategory)

(* ------------------------------ SelectInput ---------------------------- *)

SelectFields == {"componentId", "greenMarkCategory", "countryId", "units",
                 "marineVehicleId", "internationalRoadVehicleId", "localRoadVehicleId"}

InputFields == {"quantity", "manualMarineDistance", "internationalRoadDistance",
                "localRoadDistance"}

\* the SelectInput instances rendered for the given values; row 0 is the
\* reference value chooser above the table
Choosers(values) ==
    {[row |-> 0, field |-> "referenceValue"]}
    \cup {[row |-> i, field |-> f] : i \in 1..Len(values.rows), f \in SelectFields}

\* the options prop of a chooser
Options(c) ==
    CASE c.field = "referenceValue" -> referenceValueOptions
      [] c.field = "componentId" -> StringOptions(componentIds)
      [] c.field = "greenMarkCategory" ->
             StringOptions(<<Id("Concrete"), Id("Steel"), Id("Glass")>>)
      [] c.field = "countryId" -> StringOptions(countryIds)
      [] c.field = "units" -> StringOptions(<<Id("tonne"), Id("kg")>>)
      [] c.field = "marineVehicleId" -> StringOptions(marineVehicleIds)
      [] OTHER -> StringOptions(roadVehicles)

\* the value prop of a chooser
Value(values, c) ==
    IF c.field = "referenceValue" THEN toString(values.referenceValue)
    ELSE values.rows[c.row][c.field]

\* options.find((o) => o.value === value)?.label
findLabel(options, value) ==
    IF \E k \in 1..Len(options) : options[k].value = value
    THEN options[CHOOSE k \in 1..Len(options) :
                     /\ options[k].value = value
                     /\ \A j \in 1..(k - 1) : options[j].value # value].label
    ELSE undefined

\* mutant: every option is rendered whether the chooser is open or not
SelectContentEager(isOpen, value, options) ==
    [k \in 1..Len(options) |->
        [value |-> options[k].value, label |-> options[k].label, disabled |-> FALSE]]

\* mutant: nothing is rendered while the chooser is closed
SelectContentForgetful(isOpen, value, options) ==
    IF isOpen
    THEN [k \in 1..Len(options) |->
            [value |-> options[k].value, label |-> options[k].label, disabled |-> FALSE]]
    ELSE <<>>

\* the SelectItem children of SelectContent
SelectContent(isOpen, value, options) ==
    IF isOpen
    THEN [k \in 1..Len(options) |->
            [value |-> options[k].value, label |-> options[k].label, disabled |-> FALSE]]
    ELSE IF Truthy(value)
    THEN << [value |-> value,
             label |-> IF Len(options) > 0 /\ options[1].isString
                       THEN value
                       ELSE findLabel(options, value),
             disabled |-> TRUE] >>
    ELSE <<>>

\* what a chooser currently renders
Items(c) == SelectContent(c \in open, Value(formValues, c), Options(c))

(* ------------------------------- actions ------------------------------- *)

\* what a number input can deliver as event.target.value: a whole-number
\* literal, or the empty string for text that is not a number
RawInputs == {Str(<<"-", "5">>), Str(<<>>), Str(<<"7">>)}

\* a record of the handler that ran last: its arguments and the form values
\* it found
Handler(op, row, field, value) ==
    [op |-> op, row |-> row, field |-> field, value |-> value, before |-> formValues]

Init ==
    /\ globalComponents = GlobalTable
    /\ countryComponents = CountryTable
    /\ formValues = defaultValues
    /\ open = {}
    /\ output = App(formValues)
    /\ appends = 0
    /\ edits = 0
    /\ last = Handler("none", 0, "", undefined)
    /\ looked = [id |-> undefined, category |-> undefined]
    /\ candidate = defaultInputRow
    /\ parsed = [success |-> TRUE, errors |-> {}, data |-> defaultInputRow]

Catalogue == <<globalComponents, countryComponents, looked, candidate, parsed>>

\* While a Select is open it takes every pointer event outside it, so the
\* other controls are used only when no chooser is open.

\* either "Add Row" button: append(defaultInputRow())
AddRow ==
    /\ open = {}
    /\ appends < MaxAppends
    /\ formValues' = [formValues EXCEPT !.rows = append(@, defaultInputRow)]
    /\ output' = App(formValues')
    /\ appends' = appends + 1
    /\ last' = Handler("append", 0, "", undefined)
    /\ UNCHANGED <<open, edits, Catalogue>>

\* the copy button of a row: append({ ...rows[index] })
Duplicate(index) ==
    /\ open = {}
    /\ appends < MaxAppends
    /\ formValues' = [formValues EXCEPT !.rows = append(@, copyRow(@, index))]
    /\ output' = App(formValues')
    /\ appends' = appends + 1
    /\ last' = Handler("duplicate", index, "", undefined)
    /\ UNCHANGED <<open, edits, Catalogue>>

\* remove(index), of a rendered row or of a position just past the last
\* one; the choosers of the positions that no longer exist unmount
Remove(index) ==
    /\ open = {}
    /\ formValues' = [formValues EXCEPT !.rows = remove(@, index)]
    /\ output' = App(formValues')
    /\ open' = open \cap Choosers(formValues')
    /\ last' = Handler("remove", index, "", undefined)
    /\ UNCHANGED <<appends, edits, Catalogue>>

\* onChange of a number input of a row
InputChange(index, field, raw) ==
    /\ open = {}
    /\ edits < MaxEdits
    /\ formValues' = setValue(formValues, index, field, raw)
    /\ output' = App(formValues')
    /\ edits' = edits + 1
    /\ last' = Handler("input", index, field, raw)
    /\ UNCHANGED <<open, appends, Catalogue>>

\* onChange of the GFA input
GfaChange(raw) ==
    /\ open = {}
    /\ edits < MaxEdits
    /\ formValues' = [formValues EXCEPT !.gfa = raw]
    /\ output' = App(formValues')
    /\ edits' = edits + 1
    /\ last' = Handler("input", 0, "gfa", raw)
    /\ UNCHANGED <<open, appends, Catalogue>>

\* onOpenChange={setOpen}: a chooser opens when no other is open (an open
\* Select takes every pointer event outside it), or closes
OpenChange(c, isOpen) ==
    /\ IF isOpen THEN open = {} ELSE c \in open
    /\ open' = IF isOpen THEN open \cup {c} ELSE open \ {c}
    /\ last' = Handler(IF isOpen THEN "open" ELSE "close", 0, "", undefined)
    /\ UNCHANGED <<formValues, output, appends, edits, Catalogue>>

\* an item of an open chooser is picked: onValueChange(v), then the Select closes
Pick(c, k) ==
    /\ c \in open
    /\ edits < MaxEdits
    /\ k \in 1..Len(Items(c))
    /\ ~Items(c)[k].disabled
    /\ LET v == Items(c)[k].value
       IN  /\ formValues' =
                 IF c.field = "referenceValue" THEN [formValues EXCEPT !.referenceValue = v]
                 ELSE IF c.field = "componentId" THEN onComponentChange(formValues, c.row, v)
                 ELSE setValue(formValues, c.row, c.field, v)
           /\ last' = Handler("pick", c.row, c.field, v)
    /\ output' = App(formValues')
    /\ open' = open \ {c}
    /\ edits' = edits + 1
    /\ UNCHANGED <<appends, Catalogue>>

\* the download button: the output is serialised, nothing is changed
Download ==
    /\ open = {}
    /\ last' = Handler("download", 0, "", undefined)
    /\ UNCHANGED <<formValues, open, output, appends, edits, Catalogue>>

Next ==
    \/ AddRow
    \/ \E index \in 1..Len(formValues.rows) : Duplicate(index)
    \/ \E index \in 1..(Len(formValues.rows) + 1) : Remove(index)
    \/ \E index \in 1..Len(formValues.rows), field \in InputFields, raw \in RawInputs :
           InputChange(index, field, raw)
    \/ \E raw \in RawInputs : GfaChange(raw)
    \/ \E c \in Choosers(formValues), isOpen \in BOOLEAN : OpenChange(c, isOpen)
    \/ \E c \in Choosers(formValues) : \E k \in 1..Len(Items(c)) : Pick(c, k)
    \/ Download

Spec == Init /\ [][Next]_vars

(* --------------------- the row schema on its own ----------------------- *)

\* raw values a candidate row can carry in a numeric field
RawNumbers == {Num(20), Num(0 - 1), Str(<<"-", "5">>), Str(<<>>), Str(<<"7">>),
               Str(<<"abc">>)}

CandidateRows ==
    {[defaultInputRow EXCEPT !.quantity = q, !.manualMarineDistance = m,
                             !.internationalRoadDistance = i, !.localRoadDistance = l,
                             !.units = u, !.greenMarkCategory = g] :
        q \in RawNumbers, m \in RawNumbers \cup {undefined}, i \in RawNumbers,
        l \in RawNumbers, u \in {Id("tonne"), Id("lb")}, g \in {undefined, Id("Steel")}}

InitSchema ==
    /\ globalComponents = GlobalTable
    /\ countryComponents = CountryTable
    /\ formValues = defaultValues
    /\ open = {}
    /\ output = App(formValues)
    /\ appends = 0
    /\ edits = 0
    /\ last = Handler("none", 0, "", undefined)
    /\ looked = [id |-> undefined, category |-> undefined]
    /\ candidate \in CandidateRows
    /\ parsed = [success |-> TRUE, errors |-> {}, data |-> defaultInputRow]

\* rowschema.safeParse(candidate)
SafeParse ==
    /\ last.op = "none"
    /\ parsed' = rowschema(candidate)
    /\ last' = Handler("safeParse", 0, "", undefined)
    /\ UNCHANGED <<formValues, open, output, appends, edits, globalComponents,
                   countryComponents, looked, candidate>>

NextSchema == SafeParse

SpecSchema == InitSchema /\ [][NextSchema]_vars

(* ------------------- the category lookup on its own -------------------- *)

TableIds == {Id("Concrete C30"), Id("Rebar")}

TableCategories == {Id("Concrete"), Id("Steel"), undefined}

LookupIds == TableIds \cup {Id("Timber")}

GlobalEntries ==
    {[componentId |-> c, greenMarkCategory |-> g] : c \in TableIds, g \in TableCategories}

CountryEntries ==
    {[countryId |-> Id("Malaysia"), componentId |-> c, greenMarkCategory |-> g] :
        c \in TableIds, g \in TableCategories}

Tables(entries, lo, hi) == UNION {[1..n -> entries] : n \in lo..hi}

\* any tables the catalogue package could ship; defaultInputRow reads
\* globalComponents[0], so the global table has an entry
InitCatalogue ==
    /\ globalComponents \in Tables(GlobalEntries, 1, MaxGlobal)
    /\ countryComponents \in Tables(CountryEntries, 0, MaxCountry)
    /\ formValues = defaultValues
    /\ open = {}
    /\ output = App(formValues)
    /\ appends = 0
    /\ edits = 0
    /\ last = Handler("none", 0, "", undefined)
    /\ looked = [id |-> undefined, category |-> undefined]
    /\ candidate = defaultInputRow
    /\ parsed = [success |-> TRUE, errors |-> {}, data |-> defaultInputRow]

\* componentIdToGreenmarkMap[v]
LookUp(v) ==
    /\ looked' = [id |-> v, category |-> Get(componentIdToGreenmarkMap, v.s)]
    /\ last' = Handler("lookup", 0, "", v)
    /\ UNCHANGED <<formValues, open, output, appends, edits, globalComponents,
                   countryComponents, candidate, parsed>>

NextCatalogue == \E v \in LookupIds : LookUp(v)

SpecCatalogue == InitCatalogue /\ [][NextCatalogue]_vars

(* ------------------------------- claims -------------------------------- *)

rows == formValues.rows

NumberFails(v) == Number(v).t # "number" \/ Number(v).n < 0

\* C1: an edit that sets quantity, internationalRoadDistance or
\* localRoadDistance to a negative or non-numeric value leaves the state
\* handed to the calculation (rows, gfa, referenceValue) as it was.
C1_InvalidEditRejected ==
    (/\ last.op = "input"
     /\ last.field \in {"quantity", "internationalRoadDistance", "localRoadDistance"}
     /\ NumberFails(last.value))
    => watch(formValues) = watch(last.before)

\* the category the tables give a component: that of the last entry carrying
\* its id, the global table read before the country-specific one
TableCategory(v) ==
    LET all == globalComponents \o countryComponents
        at == {k \in 1..Len(all) : all[k].componentId = v}
    IN  IF at = {} THEN undefined
        ELSE all[CHOOSE k \in at : \A j \in at : j <= k].greenMarkCategory

\* C2: after a pick of componentId on a row, the row has that componentId
\* and the category the catalogue gives it (absent when it gives none),
\* whatever category the row held before; applying the same pick again
\* changes nothing.
C2_ComponentResetsCategory ==
    (last.op = "pick" /\ last.field = "componentId")
    => LET i == last.row
           v == last.value
       IN  /\ rows[i].componentId = v
           /\ rows[i].greenMarkCategory = TableCategory(v)
           /\ onComponentChange(formValues, i, v) = formValues

\* C2 witness: a component was picked on a row whose category had been chosen
\* by hand, and the category is now the catalogue's (absent, for Timber)
C2_Witness ==
    /\ last.op = "pick"
    /\ last.field = "componentId"
    /\ last.value = Id("Timber")
    /\ last.before.rows[last.row].greenMarkCategory = Id("Steel")
    /\ rows[last.row].greenMarkCategory = undefined

C4_OutputInSync ==
    /\ output = calculateGreenMark(watch(formValues))
    /\ output.params.rows = rows
    /\ DOMAIN output.rows = 1..Len(rows)
    /\ \A k \in 1..Len(rows) : output.rows[k].a1a3 = <<"a1a3", k>>

\* C4 witness: rows have been added and edited, and the output follows
C4_Witness ==
    /\ last.op = "input"
    /\ Len(rows) = 2
    /\ rows[2].quantity = Str(<<"7">>)
    /\ Len(output.rows) = 2
    /\ output.params.rows[2].quantity = Str(<<"7">>)

\* C5 (as stated): rows.length is never negative and never more than the
\* number of appends.
C5_AtMostAppends == Len(rows) >= 0 /\ Len(rows) <= appends

\* C5 (amended): rows.length is never negative and never more than one, the
\* default row of the initial state, plus the number of appends.
C5_AtMostOnePlusAppends == Len(rows) >= 0 /\ Len(rows) <= 1 + appends

\* C5 witness: a row was appended and a row was removed
C5_Witness == last.op = "remove" /\ appends = 1 /\ Len(rows) = 1

NumericFields == {"quantity", "internationalRoadDistance", "localRoadDistance",
                  "manualMarineDistance"}

\* C6: a candidate row with a negative quantity, internationalRoadDistance,
\* localRoadDistance or (when present) manualMarineDistance is rejected with
\* an error on that field.
C6_NegativeRejected ==
    last.op = "safeParse"
    => \A f \in NumericFields :
           (candidate[f].t # "undefined" /\ Number(candidate[f]).t = "number"
            /\ Number(candidate[f]).n < 0)
           => (~parsed.success /\ f \in parsed.errors)

\* the whole option list of a chooser, every item selectable
FullyRendered(items, options) ==
    /\ Len(items) = Len(options)
    /\ \A k \in 1..Len(options) :
           items[k].value = options[k].value /\ items[k].label = options[k].label
                                             /\ ~items[k].disabled

\* every open chooser renders its whole option list and every closed one no
\* selectable option
Materialized ==
    \A c \in Choosers(formValues) :
        IF c \in open
        THEN FullyRendered(Items(c), Options(c))
        ELSE \A k \in 1..Len(Items(c)) : Items(c)[k].disabled

\* C7: opening or closing a chooser changes no form value; only what the
\* choosers render changes: the whole option list exactly while open, no
\* selectable option while closed.
C7_OpenCloseKeepsValue ==
    /\ Materialized
    /\ last.op \in {"open", "close"} => formValues = last.before

\* C7 witness: a chooser has been closed without a pick
C7_Witness ==
    /\ last.op = "close"
    /\ open = {}
    /\ formValues = defaultValues
    /\ Items([row |-> 1, field |-> "componentId"])
           = << [value |-> defaultInputRow.componentId,
                 label |-> defaultInputRow.componentId, disabled |-> TRUE] >>

\* the label a chooser shows for a value
ResolvedLabel(c, value) ==
    IF c.field = "referenceValue"
    THEN LET at == {k \in 1..Len(referenceValues) :
                       toString(referenceValues[k].referenceValue) = value}
         IN  IF at = {} THEN undefined
             ELSE referenceValueOptions[CHOOSE k \in at : \A j \in at : k <= j].label
    ELSE value

\* C8 (as stated): every closed chooser retains exactly one item, carrying the
\* value of its field and the label of that value.
C8_ClosedRetainsOne ==
    \A c \in Choosers(formValues) \ open :
        /\ Len(Items(c)) = 1
        /\ Items(c)[1].value = Value(formValues, c)
        /\ Items(c)[1].label = ResolvedLabel(c, Value(formValues, c))

\* C8 (amended): a closed chooser whose field holds a non-empty value retains
\* exactly one item, carrying that value and its label; a closed chooser whose
\* field is absent retains none.
C8_ClosedRetainsValue ==
    \A c \in Choosers(formValues) \ open :
        IF Truthy(Value(formValues, c))
        THEN /\ Len(Items(c)) = 1
             /\ Items(c)[1].value = Value(formValues, c)
             /\ Items(c)[1].label = ResolvedLabel(c, Value(formValues, c))
             /\ Items(c)[1].label.t = "string"
        ELSE Items(c) = <<>>

\* C8 witness: a category set by the cascade is retained by the closed
\* category chooser of the row
C8_Witness ==
    /\ last.op = "pick"
    /\ last.field = "componentId"
    /\ open = {}
    /\ rows[last.row].greenMarkCategory = Id("Concrete")
    /\ Items([row |-> last.row, field |-> "greenMarkCategory"])
           = << [value |-> Id("Concrete"), label |-> Id("Concrete"), disabled |-> TRUE] >>

====
